---- MODULE Spec2Model ----
(***************************************************************************)
(* State-machine model of the 3d-arcade-online compositing pipeline:       *)
(* SceneManager (master RAF loop, start/stop, resize), EmulatorBridge      *)
(* (placeholder / live canvas, loadROM, EJS_onGameStart, size observer)    *)
(* and the browser primitives they are driven by (requestAnimationFrame,   *)
(* performance.now, MutationObserver).  Every handler runs to completion   *)
(* (one JavaScript task), so every handler is one action.                  *)
(***************************************************************************)
EXTENDS Integers, Sequences, FiniteSets, TLC

\* ---------------------------------------------------------------- bounds
MaxTime    == 1      \* performance.now() advances at most this many units
MaxLoads   == 2      \* loadROM calls

\* ------------------------------------------------------ program constants
NULL             == 0        \* JavaScript null (handles and canvas ids are >= 1)
Placeholder      == 1        \* identity of the canvas created by the constructor
PlaceholderW     == 384
PlaceholderH     == 224
DefaultW         == 300      \* HTML default canvas size, and the threshold
DefaultH         == 150
\* CRTShader.uniforms defaults, in thousandths
ScanlineDefault  == 150
BarrelDefault    == 150
ChromaticDefault == 3
VignetteDefault  == 400
BrightnessDefault == 1100

VARIABLES
  now,            \* performance.now(), monotonic
  clock,          \* SceneManager.#clock (THREE.Clock fields)
  rafId,          \* SceneManager.#rafId  (NULL or a handle)
  rafPending,     \* browser: handles of the frame callbacks still scheduled
  screenMesh,     \* SceneManager.#screenMesh !== null
  texImage,       \* #screenMesh.texture.image (canvas id; NULL before init)
  texDirty,       \* texture marked needsUpdate and not yet uploaded
  uTime,          \* crtPass.uniforms.uTime.value (ms)
  texture,        \* ScreenMesh.texture: the n-th CanvasTexture created (0: none)
  uResolution,    \* crtPass.uniforms.uResolution.value
  config,         \* the five configuration uniforms
  pixelRatio,     \* renderer pixel ratio = min(devicePixelRatio, 2)
  winSize,        \* <<window.innerWidth, window.innerHeight>>
  rendererSize,   \* renderer CSS size
  renderTargets,  \* EffectComposer.renderTarget1, renderTarget2
  cameraAspect,   \* camera.aspect as the pair <<w, h>>
  isReady,        \* EmulatorBridge.#isReady
  ejsCanvas,      \* EmulatorBridge.#ejsCanvas (NULL or canvas id)
  placeholderCanvas, \* EmulatorBridge.#placeholderCanvas
  canvasDims,     \* canvas id -> <<width, height>>
  canvasCount,    \* canvases created so far (the placeholder is number 1)
  emuCanvas,      \* window.EJS_emulator?.canvas ?? null
  emuHandler,     \* load whose closure window.EJS_emulator calls on game start
  emuStarted,     \* window.EJS_emulator has fired its start event
  handlerLoad,    \* load whose closure is window.EJS_onGameStart (0: none)
  observers,      \* attached MutationObservers: [canvas, load]
  promise,        \* load -> "none" | "pending" | "resolved" | "rejected"
  resolveCalls,   \* load -> number of resolve() calls made
  scriptState,    \* load -> "none" | "loading" | "loaded" | "error"
  loadCount,      \* loadROM calls so far
  accepted,       \* a live producer surface has been accepted (markReady ran)
  romLoader,      \* ROM picker: "idle" | "awaiting" | "ready" | "error"
  heldKeys,       \* InputRouter.#heldKeys
  keysDown,       \* keyboard: the physical keys that are down
  frag,           \* the fragment the CRT pass is shading: vUv, texture, ...
  tickPc,         \* operations the tick in progress has executed (0: no tick)
  \* observation of the run
  lastOp,         \* scheduler operation that ran last
  lifecycle,      \* last lifecycle call made: "new" | "started" | "stopped"
  tickTrace,      \* operations of the most recent tick, in order
  ticksRun,       \* ticks the last scheduler operation executed
  intervalTicks,  \* ticks since the latest display refresh began (2: two or more)
  threw,          \* the last scheduler operation raised an error to its caller
  failed          \* an operation of the last handler raised an error

schedVars  == <<now, clock, rafId, rafPending, screenMesh,
                texImage, texDirty, uTime, texture>>
sizeVars   == <<uResolution, config, pixelRatio, winSize, rendererSize,
                renderTargets, cameraAspect>>
bridgeVars == <<isReady, ejsCanvas, placeholderCanvas, canvasDims, canvasCount,
                emuCanvas, emuHandler, emuStarted, handlerLoad, observers,
                promise, resolveCalls, scriptState, loadCount, accepted>>
obsVars    == <<lastOp, lifecycle, tickTrace, ticksRun, intervalTicks, threw,
                failed>>
auxVars    == <<romLoader, heldKeys, tickPc, keysDown, frag>>
vars == <<schedVars, sizeVars, bridgeVars, obsVars, auxVars>>

Loads    == 1..MaxLoads
Canvases == 1..(1 + MaxLoads)
WindowSizes == {<<800, 600>>, <<1920, 1080>>}
\* widths the producer gives its canvas: below, at and above the threshold
ProducerDims == {<<256, 224>>, <<384, 224>>}

\* ------------------------------------------------------- EmulatorBridge
\* get outputCanvas(): this.#ejsCanvas ?? this.#placeholderCanvas
outputCanvas_noFallback(ejs, ph) == ejs
outputCanvas(ejs, ph) == IF ejs # NULL THEN ejs ELSE ph

OutputCanvas == outputCanvas(ejsCanvas, placeholderCanvas)

\* ------------------------------------------------------------ THREE.Clock
\* Clock.start(): startTime = oldTime = now(); elapsedTime = 0; running = true
clockStart(c, t) ==
  [running |-> TRUE, startTime |-> t, oldTime |-> t, elapsedTime |-> 0]

\* Clock.getElapsedTime(): getDelta(), then elapsedTime.  autoStart is true.
clockGetElapsedTime(c, t) ==
  IF ~c.running
    THEN clockStart(c, t)
    ELSE [c EXCEPT !.oldTime = t, !.elapsedTime = @ + (t - c.oldTime)]

\* ----------------------------------------------------------- SceneManager
\* The scheduler-side state a tick reads and writes, as one record.  frame
\* holds the handles of the display refresh that is being served.
Sched ==
  [rafId |-> rafId, rafPending |-> rafPending, frame |-> {},
   clock |-> clock, uTime |-> uTime, texImage |-> texImage,
   texDirty |-> texDirty, texture |-> texture, trace |-> tickTrace,
   ticks |-> 0, threw |-> FALSE, failed |-> FALSE]

\* requestAnimationFrame returns a handle no live reference names.  Handles
\* are only ever compared for identity, so the least free number stands for
\* the browser's next handle.
freshHandle(s) ==
  LET used == s.rafPending \cup s.frame \cup {s.rafId}
  IN CHOOSE h \in 1..(Cardinality(used) + 1) :
       h \notin used /\ \A g \in 1..(h - 1) : g \in used

\* streamFrame that assigns texture.image on every ready tick
streamFrame_rebindAlways(s) ==
  IF isReady /\ screenMesh
    THEN [s EXCEPT !.texImage = OutputCanvas,
                   !.texDirty = TRUE,
                   !.trace = @ \o <<"check", "rebind", "dirty">>]
    ELSE s

\* streamFrame without the isReady test: marks the texture on every tick
streamFrame_always(s) ==
  IF screenMesh
    THEN LET swap == s.texImage # OutputCanvas
         IN [s EXCEPT !.texImage = OutputCanvas,
                      !.texDirty = TRUE,
                      !.trace = @ \o (IF swap THEN <<"check", "rebind", "dirty">>
                                              ELSE <<"check", "dirty">>)]
    ELSE s

\* streamFrame that builds a new CanvasTexture for a new source
streamFrame_newTexture(s) ==
  IF isReady /\ screenMesh
    THEN LET swap == s.texImage # OutputCanvas
         IN [s EXCEPT !.texImage = OutputCanvas,
                      !.texDirty = TRUE,
                      !.texture = IF swap THEN @ + 1 ELSE @,
                      !.trace = @ \o (IF swap THEN <<"check", "rebind", "dirty">>
                                              ELSE <<"check", "dirty">>)]
    ELSE s

\* #tick, lines 146-155: stream the latest emulator frame
streamFrame(s) ==
  IF isReady /\ screenMesh
    THEN LET swap == s.texImage # OutputCanvas
         IN [s EXCEPT !.texImage = OutputCanvas,
                      !.texDirty = TRUE,
                      !.trace = @ \o (IF swap THEN <<"check", "rebind", "dirty">>
                                              ELSE <<"check", "dirty">>)]
    ELSE s

\* #tick, lines 157-159: sample the clock once, write uTime
updateTime(s, t) ==
  LET c == clockGetElapsedTime(s.clock, t)
  IN [s EXCEPT !.clock = c, !.uTime = c.elapsedTime,
               !.trace = Append(@, "time")]

\* #tick, line 165: composer.render(); a failing render raises
render(s, fail) ==
  IF fail
    THEN [s EXCEPT !.trace = Append(@, "render"), !.failed = TRUE,
                   !.threw = TRUE]
    ELSE [s EXCEPT !.trace = Append(@, "render"), !.texDirty = FALSE]

\* requestFrame that schedules the callback twice
requestFrame_twice(s) ==
  LET h == freshHandle(s)
      g == freshHandle([s EXCEPT !.rafPending = @ \cup {h}])
  IN [s EXCEPT !.rafId = g,
               !.rafPending = @ \cup {h, g},
               !.trace = Append(@, "raf")]

\* #tick, line 141: this.#rafId = requestAnimationFrame(this.#tick)
requestFrame(s) ==
  LET h == freshHandle(s)
  IN [s EXCEPT !.rafId = h,
               !.rafPending = @ \cup {h},
               !.trace = Append(@, "raf")]

\* #tick, line 144: inputRouter.poll() changes no state
poll(s) == [s EXCEPT !.trace = Append(@, "poll")]

\* #tick, line 162: controls.update()
controlsUpdate(s) == [s EXCEPT !.trace = Append(@, "controls")]

\* tick that renders before it streams the frame
tick_renderEarly(s, t, fail) ==
  LET s0 == [s EXCEPT !.trace = <<>>, !.ticks = @ + 1]
  IN controlsUpdate(updateTime(streamFrame(render(poll(requestFrame(s0)),
                                                  fail)), t))

\* tick that requests the next frame after its other operations
tick_requestLast(s, t, fail) ==
  LET s0 == [s EXCEPT !.trace = <<>>, !.ticks = @ + 1]
  IN requestFrame(render(controlsUpdate(updateTime(streamFrame(poll(s0)), t)),
                         fail))

\* #tick, lines 140-166, run at time t
tick(s, t, fail) ==
  LET s0 == [s EXCEPT !.trace = <<>>, !.ticks = @ + 1]
  IN render(controlsUpdate(updateTime(streamFrame(poll(requestFrame(s0))), t)),
            fail)

\* start without the already-running test
start_noGuard(s, t, fail) ==
  tick([s EXCEPT !.clock = clockStart(s.clock, t)], t, fail)

\* start that wraps its tick in a try/catch and swallows the error
start_catches(s, t, fail) ==
  IF s.rafId # NULL
    THEN s
    ELSE [tick([s EXCEPT !.clock = clockStart(s.clock, t)], t, fail)
            EXCEPT !.threw = FALSE]

\* start(), lines 87-91
start(s, t, fail) ==
  IF s.rafId # NULL
    THEN s
    ELSE tick([s EXCEPT !.clock = clockStart(s.clock, t)], t, fail)

\* stop that cancels the callback and keeps the handle
stop_keepHandle(s) ==
  IF s.rafId # NULL
    THEN [s EXCEPT !.rafPending = @ \ {s.rafId}]
    ELSE s

\* stop that forgets the handle without cancelling the callback
stop_noCancel(s) == [s EXCEPT !.rafId = NULL]

\* stop(), lines 93-98
stop(s) ==
  IF s.rafId # NULL
    THEN [s EXCEPT !.rafPending = @ \ {s.rafId}, !.rafId = NULL]
    ELSE s

\* The browser runs the frame callbacks that were scheduled when the frame
\* began, in handle order; a callback cancelled meanwhile is skipped.
RECURSIVE runFrameCallbacks(_, _, _, _)
runFrameCallbacks(s, handles, t, fail) ==
  IF handles = {}
    THEN s
    ELSE LET h == CHOOSE x \in handles : \A y \in handles : x <= y
             rest == handles \ {h}
         IN IF h \in s.rafPending
              THEN runFrameCallbacks(
                     tick([s EXCEPT !.rafPending = @ \ {h}], t, fail),
                     rest, t, fail)
              ELSE runFrameCallbacks(s, rest, t, fail)

SetSched(s) ==
  /\ rafId' = s.rafId
  /\ rafPending' = s.rafPending
  /\ clock' = s.clock
  /\ uTime' = s.uTime
  /\ texImage' = s.texImage
  /\ texDirty' = s.texDirty
  /\ texture' = s.texture
  /\ tickTrace' = s.trace
  /\ ticksRun' = s.ticks
  /\ threw' = s.threw
  /\ failed' = s.failed

\* ticks of one refresh interval, counted as 0, 1 or "2 or more"
countInterval(n) == IF n >= 2 THEN 2 ELSE n

\* -------------------------------------------------------- PostProcessor
\* device pixels of a CSS size at pixel ratio pr
pixels(size, pr) == <<size[1] * pr, size[2] * pr>>

\* an EffectComposer that allocates one render target only
newComposerTargets_single(size, pr) ==
  <<[size |-> pixels(size, pr), disposed |-> FALSE]>>

\* new EffectComposer(renderer), line 32: renderTarget1 at the renderer's
\* pixel size and renderTarget2, its clone
newComposerTargets(size, pr) ==
  LET rt == [size |-> pixels(size, pr), disposed |-> FALSE]
  IN  <<rt, rt>>

\* a setSize that disposes the target whatever its size
targetSetSize_always(rt, size) == [size |-> size, disposed |-> TRUE]

\* WebGLRenderTarget.setSize: the target is disposed, and allocated anew by
\* the next render, only when its dimensions change
targetSetSize(rt, size) ==
  IF rt.size # size THEN [size |-> size, disposed |-> TRUE]
                    ELSE [rt EXCEPT !.disposed = FALSE]

\* composer.setSize(width, height), line 49: both targets take the size in
\* device pixels
composerSetSize(rts, size, pr) ==
  [i \in 1..Len(rts) |-> targetSetSize(rts[i], pixels(size, pr))]

\* size of the target the CRT pass samples
targetSize == renderTargets[Len(renderTargets)].size

\* the size state as one value
SizeState ==
  [uResolution |-> uResolution, config |-> config, pixelRatio |-> pixelRatio,
   winSize |-> winSize, rendererSize |-> rendererSize,
   renderTargets |-> renderTargets, cameraAspect |-> cameraAspect]

SetSize(s) ==
  /\ uResolution' = s.uResolution
  /\ config' = s.config
  /\ pixelRatio' = s.pixelRatio
  /\ winSize' = s.winSize
  /\ rendererSize' = s.rendererSize
  /\ renderTargets' = s.renderTargets
  /\ cameraAspect' = s.cameraAspect

\* a resize handler that takes the uniform from the target before resizing it
onResize_staleUniform(s, size) ==
  [s EXCEPT !.winSize = size, !.cameraAspect = size, !.rendererSize = size,
            !.renderTargets = composerSetSize(s.renderTargets, size,
                                              s.pixelRatio),
            !.uResolution = s.renderTargets[1].size]

\* a resize handler that rebuilds the CRT pass from the shader defaults
onResize_resetConfig(s, size) ==
  [s EXCEPT !.winSize = size, !.cameraAspect = size, !.rendererSize = size,
            !.renderTargets = composerSetSize(s.renderTargets, size,
                                              s.pixelRatio),
            !.uResolution = size,
            !.config = [u \in DOMAIN s.config |->
                          CASE u = "uScanlineIntensity" -> ScanlineDefault
                            [] u = "uBarrelStrength" -> BarrelDefault
                            [] u = "uChromaticAberration" -> ChromaticDefault
                            [] u = "uVignetteStrength" -> VignetteDefault
                            [] OTHER -> BrightnessDefault]]

\* #onResize, lines 168-177, with PostProcessor.setSize, lines 48-51
onResize(s, size) ==
  [s EXCEPT !.winSize = size, !.cameraAspect = size, !.rendererSize = size,
            !.renderTargets = composerSetSize(s.renderTargets, size,
                                              s.pixelRatio),
            !.uResolution = size]

\* ------------------------------------------------------------------ Init
\* The state main() leaves the program in once the constructors have run.
Init ==
  /\ now = 0
  /\ clock = [running |-> FALSE, startTime |-> 0, oldTime |-> 0,
              elapsedTime |-> 0]
  /\ rafId = NULL
  /\ rafPending = {}
  /\ screenMesh = FALSE
  /\ texImage = NULL
  /\ texDirty = FALSE
  /\ texture = 0
  /\ uTime = 0
  /\ pixelRatio \in {1, 2}
  /\ winSize = <<800, 600>>
  /\ rendererSize = winSize
  /\ renderTargets = newComposerTargets(winSize, pixelRatio)
  /\ uResolution = pixels(winSize, pixelRatio)
  /\ cameraAspect = winSize
  /\ config = [uScanlineIntensity |-> ScanlineDefault,
               uBarrelStrength |-> BarrelDefault,
               uChromaticAberration |-> ChromaticDefault,
               uVignetteStrength |-> VignetteDefault,
               uBrightness |-> BrightnessDefault]
  /\ isReady = FALSE
  /\ ejsCanvas = NULL
  /\ placeholderCanvas = Placeholder
  /\ canvasDims = [c \in Canvases |->
                     IF c = Placeholder THEN <<PlaceholderW, PlaceholderH>>
                                        ELSE <<DefaultW, DefaultH>>]
  /\ canvasCount = 1
  /\ emuCanvas = NULL
  /\ emuHandler = 0
  /\ emuStarted = FALSE
  /\ handlerLoad = 0
  /\ observers = {}
  /\ promise = [k \in Loads |-> "none"]
  /\ resolveCalls = [k \in Loads |-> 0]
  /\ scriptState = [k \in Loads |-> "none"]
  /\ loadCount = 0
  /\ lastOp = "construct"
  /\ lifecycle = "new"
  /\ tickTrace = <<>>
  /\ ticksRun = 0
  /\ intervalTicks = 0
  /\ threw = FALSE
  /\ failed = FALSE
  /\ accepted = FALSE
  /\ romLoader = "idle"
  /\ heldKeys = {}
  /\ keysDown = {}
  /\ frag = [shaded |-> FALSE, vUv |-> <<0, 0>>, tex |-> 0, undef |-> 0]
  /\ tickPc = 0

\* --------------------------------------------------------------- actions
\* performance.now() advances between two handlers
AdvanceTime ==
  /\ now < MaxTime
  /\ now' = now + 1
  /\ UNCHANGED <<clock, rafId, rafPending, screenMesh, texImage, texDirty,
                 uTime, texture, sizeVars, bridgeVars, obsVars, auxVars>>

\* SceneManager.init(), lines 75-85: cabinet loaded, ScreenMesh created on
\* outputCanvas.  main.js calls init() once.
SceneInit ==
  /\ ~screenMesh
  /\ screenMesh' = TRUE
  /\ texImage' = OutputCanvas
  /\ texDirty' = TRUE          \* CanvasTexture sets needsUpdate on creation
  /\ texture' = texture + 1    \* new THREE.CanvasTexture, ScreenMesh.js line 22
  /\ UNCHANGED <<now, clock, rafId, rafPending, uTime, sizeVars, bridgeVars,
                 obsVars, auxVars>>

\* sceneManager.start()
Start ==
  \E fail \in BOOLEAN :
    /\ SetSched(start(Sched, now, fail))
    /\ intervalTicks' = countInterval(intervalTicks + ticksRun')
    /\ lastOp' = "start"
    /\ lifecycle' = "started"
    /\ UNCHANGED <<now, screenMesh, sizeVars, bridgeVars, auxVars>>

\* sceneManager.stop()
Stop ==
  /\ SetSched(stop(Sched))
  /\ lastOp' = "stop"
  /\ lifecycle' = "stopped"
  /\ UNCHANGED <<now, screenMesh, sizeVars, bridgeVars, intervalTicks,
                 auxVars>>

\* A display refresh: the browser runs the scheduled frame callbacks
Refresh ==
  \E fail \in BOOLEAN :
    /\ SetSched(runFrameCallbacks([Sched EXCEPT !.frame = rafPending],
                                  rafPending, now, fail))
    /\ intervalTicks' = countInterval(ticksRun')
    /\ lastOp' = "refresh"
    /\ UNCHANGED <<now, screenMesh, sizeVars, bridgeVars, lifecycle,
                   auxVars>>

\* window resize event -> #onResize, lines 168-177
OnResize ==
  \E size \in WindowSizes :
    /\ SetSize(onResize(SizeState, size))
    /\ UNCHANGED <<schedVars, bridgeVars, obsVars, auxVars>>

\* size test that accepts every canvas that has a width
sizeSettled_any(w) == w > 0

\* lines 120 and 125: ejsCanvas.width > 300
sizeSettled(w) == w > DefaultW

\* resolve() of the promise loadROM call k returned
resolvePromise(p, k) ==
  [p EXCEPT ![k] = IF @ = "pending" THEN "resolved" ELSE @]

\* emulatorBridge.loadROM(), lines 62-141.  Its caller, the ROM picker, is
\* created after init() has completed (main.js, lines 16-30).
loadROMCall ==
  /\ screenMesh
  /\ loadCount < MaxLoads
  /\ LET k == loadCount + 1 IN
       /\ loadCount' = k
       /\ isReady' = FALSE
       /\ ejsCanvas' = NULL
       /\ handlerLoad' = k
       /\ promise' = [promise EXCEPT ![k] = "pending"]
       /\ scriptState' = [scriptState EXCEPT ![k] = "loading"]
  /\ UNCHANGED <<schedVars, sizeVars, placeholderCanvas, canvasDims,
                 canvasCount, emuCanvas, emuHandler, emuStarted, observers,
                 resolveCalls, accepted, obsVars>>

\* a loadROM call made directly on the bridge
LoadROM ==
  /\ loadROMCall
  /\ UNCHANGED auxVars

\* script.onerror, line 139
ScriptError ==
  \E k \in Loads :
    /\ scriptState[k] = "loading"
    /\ scriptState' = [scriptState EXCEPT ![k] = "error"]
    /\ promise' = [promise EXCEPT ![k] = IF @ = "pending" THEN "rejected" ELSE @]
    /\ UNCHANGED <<schedVars, sizeVars, isReady, ejsCanvas, placeholderCanvas,
                   canvasDims, canvasCount, emuCanvas, emuHandler, emuStarted,
                   handlerLoad, observers, resolveCalls, loadCount,
                   accepted, obsVars, auxVars>>

\* loader.js of load k runs: it creates window.EJS_emulator, with a canvas at
\* the HTML default size or without one, and registers the closure it finds
\* in window.EJS_onGameStart for the emulator's start event.
ScriptLoaded ==
  \E k \in Loads, withCanvas \in BOOLEAN :
    /\ scriptState[k] = "loading"
    /\ scriptState' = [scriptState EXCEPT ![k] = "loaded"]
    /\ emuHandler' = handlerLoad
    /\ emuStarted' = FALSE
    /\ IF withCanvas
         THEN /\ canvasCount' = canvasCount + 1
              /\ emuCanvas' = canvasCount + 1
         ELSE /\ canvasCount' = canvasCount
              /\ emuCanvas' = NULL
    /\ UNCHANGED <<schedVars, sizeVars, isReady, ejsCanvas, placeholderCanvas,
                   canvasDims, handlerLoad, observers, promise, resolveCalls,
                   loadCount, accepted, obsVars, auxVars>>

\* window.EJS_onGameStart closure of a loadROM call, lines 98-132, called by
\* window.EJS_emulator when its game starts
EJS_onGameStart ==
    /\ emuHandler # 0
    /\ ~emuStarted
    /\ emuStarted' = TRUE
    /\ LET j == emuHandler
           c == emuCanvas
       IN IF c = NULL
            THEN /\ isReady' = TRUE
                 /\ promise' = resolvePromise(promise, j)
                 /\ resolveCalls' = [resolveCalls EXCEPT ![j] = @ + 1]
                 /\ UNCHANGED <<ejsCanvas, observers, accepted>>
            ELSE IF sizeSettled(canvasDims[c][1])
              THEN \* markReady(), lines 109-114
                   /\ ejsCanvas' = c
                   /\ isReady' = TRUE
                   /\ promise' = resolvePromise(promise, j)
                   /\ resolveCalls' = [resolveCalls EXCEPT ![j] = @ + 1]
                   /\ accepted' = TRUE
                   /\ UNCHANGED observers
              ELSE /\ observers' = observers \cup
                                     {[canvas |-> c, load |-> j]}
                   /\ UNCHANGED <<isReady, ejsCanvas, promise, resolveCalls,
                                  accepted>>
    /\ UNCHANGED <<schedVars, sizeVars, placeholderCanvas, canvasDims,
                   canvasCount, emuCanvas, emuHandler, handlerLoad, scriptState,
                   loadCount, obsVars, auxVars>>

\* The producer sets the size of one of its canvases; the MutationObservers
\* attached to it are then called (lines 124-129) before any other task.
CanvasResize ==
  \E c \in 2..canvasCount, d \in ProducerDims :
    /\ canvasDims[c] # d
    /\ c = emuCanvas \/ \E o \in observers : o.canvas = c
    /\ canvasDims' = [canvasDims EXCEPT ![c] = d]
    /\ LET fired == {o \in observers : o.canvas = c /\ sizeSettled(d[1])}
       IN /\ observers' = observers \ fired
          /\ IF fired = {}
               THEN UNCHANGED <<ejsCanvas, isReady, promise, resolveCalls,
                                accepted>>
               ELSE \* markReady(), lines 109-114, once per fired observer
                    /\ ejsCanvas' = c
                    /\ isReady' = TRUE
                    /\ accepted' = TRUE
                    /\ promise' = [k \in Loads |->
                         IF promise[k] = "pending" /\ \E o \in fired : o.load = k
                           THEN "resolved" ELSE promise[k]]
                    /\ resolveCalls' = [k \in Loads |->
                         resolveCalls[k] + Cardinality({o \in fired : o.load = k})]
    /\ UNCHANGED <<schedVars, sizeVars, placeholderCanvas, canvasCount,
                   emuCanvas, emuHandler, emuStarted, handlerLoad, scriptState,
                   loadCount, obsVars, auxVars>>

Next ==
  \/ AdvanceTime
  \/ SceneInit
  \/ Start
  \/ Stop
  \/ Refresh
  \/ LoadROM
  \/ ScriptError
  \/ ScriptLoaded
  \/ EJS_onGameStart
  \/ CanvasResize

Spec == Init /\ [][Next]_vars

\* The scheduler on its own: lifecycle calls, display refreshes and time,
\* with the producer idle.  No producer handler reads or writes the clock,
\* the frame handle or the time uniform.
NextScheduler ==
  \/ AdvanceTime
  \/ SceneInit
  \/ Start
  \/ Stop
  \/ Refresh

SpecScheduler == Init /\ [][NextScheduler]_vars

\* The scheduler together with the producer, at one instant of the clock:
\* the time a tick samples is read by updateTime only, and nothing a
\* producer handler or streamFrame reads depends on it.
NextStream ==
  \/ SceneInit
  \/ Start
  \/ Stop
  \/ Refresh
  \/ LoadROM
  \/ ScriptError
  \/ ScriptLoaded
  \/ EJS_onGameStart
  \/ CanvasResize

SpecStream == Init /\ [][NextStream]_vars

\* The resize handler reads and writes only the size state, which no other
\* handler reads; it is explored with the scheduler in a specification of
\* its own.
NextResize ==
  \/ AdvanceTime
  \/ SceneInit
  \/ Start
  \/ Stop
  \/ Refresh
  \/ OnResize

SpecResize == Init /\ [][NextResize]_vars

\* #onResize when composer.setSize raises (PostProcessor.js line 49): the
\* camera and the renderer have their new size (SceneManager.js lines
\* 171-175), the targets and uResolution keep theirs
onResizeRaised(s, size) ==
  [s EXCEPT !.winSize = size, !.cameraAspect = size, !.rendererSize = size]

\* A resize event whose reallocation fails.  Neither #onResize nor
\* PostProcessor.setSize has a try/catch: the error leaves the handler.
OnResizeFail ==
  \E size \in WindowSizes :
    /\ SetSize(onResizeRaised(SizeState, size))
    /\ failed' = TRUE
    /\ threw' = TRUE
    /\ UNCHANGED <<schedVars, bridgeVars, lastOp, lifecycle, tickTrace,
                   ticksRun, intervalTicks, auxVars>>

\* The scheduler and the resize handler with operations that fail.
NextFaults ==
  \/ AdvanceTime
  \/ SceneInit
  \/ Start
  \/ Stop
  \/ Refresh
  \/ OnResize
  \/ OnResizeFail

SpecFaults == Init /\ [][NextFaults]_vars

\* the configuration scalars as the shader declares them, CRTShader.js 17-21
shaderDefaults ==
  [uScanlineIntensity |-> ScanlineDefault,
   uBarrelStrength |-> BarrelDefault,
   uChromaticAberration |-> ChromaticDefault,
   uVignetteStrength |-> VignetteDefault,
   uBrightness |-> BrightnessDefault]

\* An external caller writes one configuration scalar through the public
\* crtPass field, crtPass.uniforms.<name>.value = v, between two handlers:
\* the effect switched off (0) or back at its default.
SetConfig ==
  \E u \in DOMAIN config : \E v \in {0, shaderDefaults[u]} :
    /\ config' = [config EXCEPT ![u] = v]
    /\ lastOp' = "setConfig"
    /\ UNCHANGED <<schedVars, uResolution, pixelRatio, winSize, rendererSize,
                   renderTargets, cameraAspect, bridgeVars, lifecycle,
                   tickTrace, ticksRun, intervalTicks, threw, failed,
                   auxVars>>

\* The filter uniforms and their three writers: the tick, the resize
\* handler and the external caller.
NextConfig ==
  \/ AdvanceTime
  \/ SceneInit
  \/ Start
  \/ Stop
  \/ Refresh
  \/ OnResize
  \/ SetConfig

SpecConfig == Init /\ [][NextConfig]_vars

\* -------------------------------------------------------------- CRTShader
\* The fragment shader in fixed point: a float is the integer number of its
\* thousandths, as the uniforms are; products are rounded towards zero.
One == 1000

mulF(a, b) ==
  IF a * b >= 0 THEN (a * b) \div One ELSE -((-(a * b)) \div One)

\* largest r in lo..hi with r * r <= n
RECURSIVE sqrtSearch(_, _, _)
sqrtSearch(n, lo, hi) ==
  IF lo = hi THEN lo
  ELSE LET mid == (lo + hi + 1) \div 2
       IN IF mid * mid <= n THEN sqrtSearch(n, mid, hi)
                            ELSE sqrtSearch(n, lo, mid - 1)

\* largest r in lo..hi with (r/50)^5 <= (x/1000)^2
RECURSIVE root5Search(_, _, _)
root5Search(x, lo, hi) ==
  IF lo = hi THEN lo
  ELSE LET mid == (lo + hi + 1) \div 2
       IN IF 2 * mid * mid * mid * mid * mid <= 625 * x * x
            THEN root5Search(x, mid, hi)
            ELSE root5Search(x, lo, mid - 1)

\* GLSL pow(x, y) for 0 <= x <= 1 and the exponents the shader uses: 0.5
\* (line 68) and the value of uVignetteStrength (line 85).  pow(0, 0) is
\* undefined in GLSL: undef is the value the GPU yields for it.
pow(x, y, undef) ==
  CASE y = 0 -> IF x > 0 THEN One ELSE undef
    [] y = 400 -> 20 * root5Search(x, 0, 50)
    [] y = 500 -> sqrtSearch(x * One, 0, One)
    [] y = One -> x

\* sin(pi * p), p in thousandths, by Bhaskara's rational approximation
\* 16 q / (5 - 4 q), q = f (1 - f), on each half period
sinPi(p) ==
  LET f == p % (2 * One)
      g == IF f <= One THEN f ELSE f - One
      q == mulF(g, One - g)
      v == (16 * q * One) \div (5 * One - 4 * q)
  IN IF f <= One THEN v ELSE -v

\* sin(x) for x in whole radians: x / pi with pi as 355/113
sinRad(x) == sinPi((x * One * 113) \div 355)

\* mix with its weights exchanged
mix_swapped(x, y, a) == mulF(x, a) + mulF(y, One - a)

\* GLSL mix(x, y, a) = x * (1 - a) + y * a
mix(x, y, a) == mulF(x, One - a) + mulF(y, a)

\* a distortion that adds the strength to the radial term
barrelDistort_radial(uv, strength) ==
  LET cc == <<uv[1] - 500, uv[2] - 500>>
      dist == mulF(cc[1], cc[1]) + mulF(cc[2], cc[2])
  IN <<uv[1] + mulF(cc[1], dist + strength),
       uv[2] + mulF(cc[2], dist + strength)>>

\* lines 38-42
barrelDistort(uv, strength) ==
  LET cc == <<uv[1] - 500, uv[2] - 500>>
      dist == mulF(cc[1], cc[1]) + mulF(cc[2], cc[2])
  IN <<uv[1] + mulF(mulF(cc[1], dist), strength),
       uv[2] + mulF(mulF(cc[2], dist), strength)>>

\* texture2D on a texture that is one flat gray
texture2D(tex, uv) == tex

\* lines 44-49
sampleChromatic(tex, uv, aberration) ==
  <<texture2D(tex, <<uv[1] + aberration, uv[2]>>),
    texture2D(tex, uv),
    texture2D(tex, <<uv[1] - aberration, uv[2]>>)>>

\* color.rgb *= m
scale(rgb, m) == <<mulF(rgb[1], m), mulF(rgb[2], m), mulF(rgb[3], m)>>

\* line 58: the distorted coordinate is outside the unit square
outside(uv) == uv[1] < 0 \/ uv[1] > One \/ uv[2] < 0 \/ uv[2] > One

\* lines 67-68: the scanline modulation curve
scanlineCurve(y, resY) == pow(mulF(sinPi(y * resY), 500) + 500, 500, 0)

\* lines 72-73: phosphor glow
glow(rgb) ==
  LET luma == mulF(rgb[1], 299) + mulF(rgb[2], 587) + mulF(rgb[3], 114)
  IN <<rgb[1] + mulF(mulF(rgb[1], luma), 150),
       rgb[2] + mulF(mulF(rgb[2], luma), 150),
       rgb[3] + mulF(mulF(rgb[3], luma), 150)>>

\* brightness that is added to the colour
applyBrightness_additive(rgb, b) ==
  <<rgb[1] + (b - One), rgb[2] + (b - One), rgb[3] + (b - One)>>

\* line 76: color.rgb *= uBrightness
applyBrightness(rgb, b) == scale(rgb, b)

\* line 79
flicker(t) == One + mulF(sinRad(t * 60), 3)

\* lines 83-84: the geometric term of the vignette
vignetteGeo(uv) ==
  LET vx == mulF(uv[1], One - uv[2])
      vy == mulF(uv[2], One - uv[1])
  IN mulF(mulF(vx, vy), 15 * One)

\* a vignette that uses the geometric term whatever the strength
vignetteMul_geo(geo, strength, undef) == geo

\* line 85
vignetteMul(geo, strength, undef) == pow(geo, strength, undef)

\* the framebuffer clamps what the shader writes to [0, 1]
clamp01(rgb) ==
  [i \in 1..3 |-> IF rgb[i] < 0 THEN 0 ELSE IF rgb[i] > One THEN One ELSE rgb[i]]

\* the result of the steps that follow the clip test, lines 63-88
shadeInside(uv, tex, undef, u) ==
  LET sampled == sampleChromatic(tex, uv, u.uChromaticAberration)
      curve == scanlineCurve(uv[2], u.uResolution[2])
      scanMul == mix(One, curve, u.uScanlineIntensity)
      scanned == scale(sampled, scanMul)
      bright == applyBrightness(glow(scanned), u.uBrightness)
      geo == vignetteGeo(uv)
      vigMul == vignetteMul(geo, u.uVignetteStrength, undef)
      rgb == scale(scale(bright, flicker(u.uTime)), vigMul)
  IN [uv |-> uv, clipped |-> FALSE, rgb |-> rgb, a |-> One,
      sampled |-> sampled, curve |-> curve, scanMul |-> scanMul,
      scanned |-> scanned, geo |-> geo, vigMul |-> vigMul,
      steps |-> <<"barrel", "clip", "sample", "scanline", "glow",
                  "brightness", "flicker", "vignette">>]

\* main without the return of line 60
main_noReturn(vUv, tex, undef, u) ==
  LET uv == barrelDistort(vUv, mulF(u.uBarrelStrength, 300))
  IN IF outside(uv)
       THEN [shadeInside(uv, 0, undef, u) EXCEPT !.clipped = TRUE]
       ELSE shadeInside(uv, tex, undef, u)

\* main(), lines 51-89, for the fragment at vUv of a flat texture
main(vUv, tex, undef, u) ==
  LET uv == barrelDistort(vUv, mulF(u.uBarrelStrength, 300))
  IN IF outside(uv)
       THEN [uv |-> uv, clipped |-> TRUE, rgb |-> <<0, 0, 0>>, a |-> One,
             sampled |-> <<0, 0, 0>>, curve |-> One, scanMul |-> One,
             scanned |-> <<0, 0, 0>>, geo |-> 0, vigMul |-> One,
             steps |-> <<"barrel", "clip">>]
       ELSE shadeInside(uv, tex, undef, u)

\* the uniforms of the CRT pass
Uniforms ==
  [uResolution |-> uResolution, uTime |-> uTime,
   uScanlineIntensity |-> config.uScanlineIntensity,
   uBarrelStrength |-> config.uBarrelStrength,
   uChromaticAberration |-> config.uChromaticAberration,
   uVignetteStrength |-> config.uVignetteStrength,
   uBrightness |-> config.uBrightness]

\* gl_FragColor of the fragment being shaded
FragColor == main(frag.vUv, frag.tex, frag.undef, Uniforms)

\* the colour read back from the presentation target
Written == clamp01(FragColor.rgb)

\* fragment coordinates: the border, the centre and two interior values
Coords == {0, 127, 500, 873, 1000}
\* gray levels of the flat texture
Grays == {0, 500, 1000}
\* values a GPU may give an undefined pow
UndefValues == {0, 1000}

\* values the external caller gives each configuration scalar
UniformValues(u) ==
  CASE u = "uScanlineIntensity" -> {0, ScanlineDefault, One}
    [] u = "uBrightness" -> {One, BrightnessDefault, 2 * One}
    [] OTHER -> {0, shaderDefaults[u]}

\* composer.render() runs the CRT pass on a fragment of the full-screen quad
Shade ==
  \E x \in Coords, y \in Coords, g \in Grays, d \in UndefValues :
    /\ frag' = [shaded |-> TRUE, vUv |-> <<x, y>>, tex |-> g, undef |-> d]
    /\ UNCHANGED <<schedVars, sizeVars, bridgeVars, obsVars, romLoader,
                   heldKeys, tickPc, keysDown>>

\* the external caller sets a configuration scalar, as SetConfig, with the
\* values that switch an effect off, restore it or apply it in full
SetUniform ==
  \E u \in DOMAIN config : \E v \in UniformValues(u) :
    /\ config' = [config EXCEPT ![u] = v]
    /\ UNCHANGED <<schedVars, uResolution, pixelRatio, winSize, rendererSize,
                   renderTargets, cameraAspect, bridgeVars, obsVars, auxVars>>

\* The CRT pass: fragments shaded under the uniforms as they are set.
NextShader ==
  \/ Shade
  \/ SetUniform

SpecShader == Init /\ [][NextShader]_vars

\* The producer gives a surface its final size: the one size change of a
\* surface that is still at the HTML default size.
CanvasSettle ==
  /\ CanvasResize
  /\ \E c \in 2..canvasCount :
       /\ canvasDims[c] = <<DefaultW, DefaultH>>
       /\ canvasDims'[c] # canvasDims[c]

\* The loads with a producer that makes progress: every script element
\* loads or fails, a loaded producer fires its game-start event, and every
\* producer surface is given its final size.
NextLoad ==
  \/ SceneInit
  \/ LoadROM
  \/ ScriptError
  \/ ScriptLoaded
  \/ EJS_onGameStart
  \/ CanvasSettle

SpecLoadFair ==
  /\ Init
  /\ [][NextLoad]_vars
  /\ WF_vars(SceneInit)
  /\ WF_vars(ScriptError \/ ScriptLoaded)
  /\ WF_vars(EJS_onGameStart)
  /\ WF_vars(CanvasSettle)

\* ------------------------------------------------------------ application
\* Load button click, part_001 lines 267-278: the picker panel is hidden and
\* loadROM is called and awaited.  The panel is never shown again.
Click ==
  /\ romLoader = "idle"
  /\ loadROMCall
  /\ romLoader' = "awaiting"
  /\ UNCHANGED <<heldKeys, tickPc, keysDown, frag>>

\* the awaited promise has settled and the click handler has not resumed
AwaitSettled ==
  romLoader = "awaiting" /\ promise[loadCount] \in {"resolved", "rejected"}

\* the await that lets every settled promise through to onReady()
loadSucceeded_any(state) == TRUE

\* part_001 lines 277-281: the await returns normally for a resolved promise
loadSucceeded(state) == state = "resolved"

\* The click handler resumes, part_001 lines 278-284: after a resolved
\* promise it calls onReady(), which is sceneManager.start() (main.js, line
\* 28); a rejection, or an error raised by start(), goes to the catch block.
OnLoadSettled ==
  /\ AwaitSettled
  /\ IF loadSucceeded(promise[loadCount])
       THEN \E fail \in BOOLEAN :
              /\ SetSched(start(Sched, now, fail))
              /\ intervalTicks' = countInterval(intervalTicks + ticksRun')
              /\ lastOp' = "start"
              /\ lifecycle' = "started"
              /\ romLoader' = IF threw' THEN "error" ELSE "ready"
       ELSE /\ romLoader' = "error"
            /\ UNCHANGED <<clock, rafId, rafPending, texImage, texDirty, uTime,
                           texture, obsVars>>
  /\ UNCHANGED <<now, screenMesh, sizeVars, bridgeVars, heldKeys, tickPc,
                 keysDown, frag>>

\* The program as main.js wires it: start() is called by the click handler
\* only and stop() by nobody.  The browser resumes a settled await before
\* the next task; here other handlers may also run first, which adds
\* behaviours and removes none.
NextApp ==
  \/ AdvanceTime
  \/ SceneInit
  \/ Click
  \/ ScriptError
  \/ ScriptLoaded
  \/ EJS_onGameStart
  \/ CanvasResize
  \/ Refresh
  \/ OnLoadSettled

SpecApp == Init /\ [][NextApp]_vars

\* ------------------------------------------------------------ InputRouter
\* the keyboard: the Z, X and Q keys and a Shift key
Codes == {"KeyZ", "KeyX", "KeyQ", "ShiftLeft"}

\* KeyboardEvent.key of an event for a physical key: a letter key reports
\* the capital letter while Shift is held
eventKey(code, shift) ==
  CASE code = "KeyZ" -> IF shift THEN "Z" ELSE "z"
    [] code = "KeyX" -> IF shift THEN "X" ELSE "x"
    [] code = "KeyQ" -> IF shift THEN "Q" ELSE "q"
    [] OTHER -> "Shift"

\* the values of e.key; all but "q" and "Q" are keys of KEY_MAP
Keys         == {"z", "Z", "x", "X", "q", "Q", "Shift"}
CapturedKeys == {"z", "Z", "x", "X", "Shift"}

\* KEY_MAP, lines 12-31: the emulator button of a key
KEY_MAP(k) ==
  CASE k \in {"z", "Z"} -> "lp"
    [] k \in {"x", "X"} -> "mp"
    [] k = "Shift" -> "coin"
    [] OTHER -> "none"

\* #onKeyDown, lines 80-94, on the set of held keys
onKeyDown(held, k) ==
  IF k \in held THEN held
  ELSE IF k \in CapturedKeys THEN held \cup {k}
  ELSE held

\* #onKeyUp, lines 96-105, on the set of held keys
onKeyUp(held, k) == held \ {k}

\* keydown event: a key goes down, or a key that is down repeats
KeyDown ==
  \E code \in Codes :
    LET down == keysDown \cup {code}
        k == eventKey(code, "ShiftLeft" \in down)
    IN /\ keysDown' = down
       /\ heldKeys' = onKeyDown(heldKeys, k)
       /\ UNCHANGED <<schedVars, sizeVars, bridgeVars, obsVars, romLoader,
                      tickPc, frag>>

\* keyup event: a key that is down is released
KeyUp ==
  \E code \in keysDown :
    LET down == keysDown \ {code}
        k == eventKey(code, "ShiftLeft" \in down)
    IN /\ keysDown' = down
       /\ heldKeys' = onKeyUp(heldKeys, k)
       /\ UNCHANGED <<schedVars, sizeVars, bridgeVars, obsVars, romLoader,
                      tickPc, frag>>

\* The keyboard handlers on their own.
NextInput ==
  \/ KeyDown
  \/ KeyUp

SpecInput == Init /\ [][NextInput]_vars

\* ------------------------------------------- a tick, operation by operation
\* number of operations of #tick
TickOps == 6

\* a tick that awaits after its input poll
tickYields_afterPoll(pc) == pc = 2

\* #tick is a plain arrow function, lines 140-166: it has no await and calls
\* no handler, so it gives up control after none of its operations
tickYields(pc) == FALSE

\* The event loop runs a handler when no handler is running: every handler
\* is registered as a callback (SceneManager.js lines 68 and 141,
\* EmulatorBridge.js lines 98 and 124, InputRouter.js lines 53-54).
Dispatchable == tickPc = 0 \/ tickYields(tickPc)

\* operation number k of #tick
tickOp(s, k, t, fail) ==
  CASE k = 1 -> requestFrame([s EXCEPT !.trace = <<>>, !.ticks = 1])
    [] k = 2 -> poll(s)
    [] k = 3 -> streamFrame(s)
    [] k = 4 -> updateTime(s, t)
    [] k = 5 -> controlsUpdate(s)
    [] k = 6 -> render(s, fail)

\* start() on a stopped scheduler, up to the first operation of its tick
StartBegin ==
  /\ Dispatchable
  /\ rafId = NULL
  /\ SetSched(tickOp([Sched EXCEPT !.clock = clockStart(clock, now)],
                     1, now, FALSE))
  /\ tickPc' = 1
  /\ lastOp' = "start"
  /\ lifecycle' = "started"
  /\ UNCHANGED <<now, screenMesh, sizeVars, bridgeVars, intervalTicks,
                 romLoader, heldKeys, keysDown, frag>>

\* the browser calls a scheduled frame callback: first operation of #tick
FrameBegin ==
  /\ Dispatchable
  /\ \E h \in rafPending :
       SetSched(tickOp([Sched EXCEPT !.rafPending = @ \ {h},
                                     !.frame = rafPending], 1, now, FALSE))
  /\ tickPc' = 1
  /\ lastOp' = "refresh"
  /\ UNCHANGED <<now, screenMesh, sizeVars, bridgeVars, lifecycle,
                 intervalTicks, romLoader, heldKeys, keysDown, frag>>

\* the tick in progress executes its next operation
TickNext ==
  /\ tickPc \in 1..(TickOps - 1)
  /\ \E fail \in BOOLEAN :
       SetSched([tickOp([Sched EXCEPT !.ticks = 1], tickPc + 1, now, fail)
                   EXCEPT !.threw = @ \/ threw, !.failed = @ \/ failed])
  /\ tickPc' = (tickPc + 1) % TickOps
  /\ UNCHANGED <<now, screenMesh, sizeVars, bridgeVars, lastOp, lifecycle,
                 intervalTicks, romLoader, heldKeys, keysDown, frag>>

\* The handlers the event loop can run, with the tick run one operation at
\* a time.
NextSteps ==
  \/ StartBegin
  \/ FrameBegin
  \/ TickNext
  \/ Dispatchable /\ SceneInit
  \/ Dispatchable /\ Click
  \/ Dispatchable /\ ScriptLoaded
  \/ Dispatchable /\ EJS_onGameStart
  \/ Dispatchable /\ CanvasResize
  \/ Dispatchable /\ OnResize
  \/ Dispatchable /\ KeyDown
  \/ Dispatchable /\ KeyUp

SpecSteps == Init /\ [][NextSteps]_vars

\* ---------------------------------------------------------------- claims
Range(seq) == {seq[i] : i \in 1..Len(seq)}

\* a frame callback of the scheduler is scheduled
Running == rafPending # {}

\* the step is a scheduler operation that executes at least one tick
TickStep == (Start \/ Refresh) /\ ticksRun' > 0

\* C1: start() on a running scheduler is a no-op: it executes no tick,
\* schedules no second frame callback and does not restart the clock.
C1_StartWhileRunningIsNoOp ==
  [][(Running /\ Start) =>
        /\ ticksRun' = 0
        /\ rafPending' = rafPending
        /\ rafId' = rafId
        /\ clock' = clock
        /\ uTime' = uTime
        /\ tickTrace' = tickTrace]_vars

\* a start() call on a running scheduler returned without a tick, after an
\* earlier refresh tick had written a positive uTime
C1_Witness == lastOp = "start" /\ Running /\ ticksRun = 0 /\ uTime > 0

\* C2: after stop() no tick executes until start() is called again, and
\* stop() on a stopped scheduler changes nothing.
C2_NoTickAfterStop ==
  [][/\ (lifecycle = "stopped" /\ ~Start) => ~TickStep
     /\ (rafId = NULL /\ Stop) =>
           UNCHANGED <<rafId, rafPending, clock, uTime, texImage, texDirty,
                       tickTrace>>]_vars

\* stop() was called while a frame callback was scheduled, and a display
\* refresh came afterwards and ran no tick
C2_Witness ==
  /\ lifecycle = "stopped"
  /\ lastOp = "refresh"
  /\ tickTrace # <<>>
  /\ ticksRun = 0
  /\ ~Running

\* C3 as stated: every tick runs from a display-refresh callback and no
\* refresh interval contains two ticks.
C3_Original ==
  [][TickStep => (Refresh /\ intervalTicks' <= 1)]_vars

\* C3 as amended: a display refresh executes at most one tick, and only when
\* the scheduler is running; every other tick is the one start() executes
\* synchronously when it is called on a stopped scheduler.
C3_OneTickPerRefresh ==
  [][/\ (Start \/ Refresh) => ticksRun' <= 1
     /\ TickStep => \/ Refresh /\ rafId # NULL
                    \/ Start /\ rafId = NULL]_vars

\* a refresh tick and a start() tick in the same refresh interval
C3_Witness == intervalTicks = 2 /\ lastOp = "start" /\ ticksRun = 1

\* C4: uTime never decreases from one tick to the next.
C4_TimeMonotonic == [][TickStep => uTime' >= uTime]_vars

\* C5: start() after stop() resets neither a filter uniform nor the bound
\* texture source.
C5_RestartKeepsState ==
  [][(lifecycle = "stopped" /\ Start) =>
        /\ uTime' >= uTime
        /\ uResolution' = uResolution
        /\ config' = config
        /\ texImage' \in {texImage, OutputCanvas}]_vars

\* position of an operation in the order the claim gives
Rank(op) ==
  CASE op = "poll" -> 1
    [] op = "check" -> 2
    [] op = "rebind" -> 3
    [] op = "dirty" -> 4
    [] op = "time" -> 5
    [] op = "render" -> 6
    [] OTHER -> 0

OrderedOps(trace) == SelectSeq(trace, LAMBDA op : Rank(op) > 0)

\* C6: the operations of a tick run in the order poll, source check (with
\* rebind), dirty mark, time update, render; poll, time update and render
\* happen exactly once, the dirty mark at most once and before the render.
C6_TickOrder ==
  tickTrace # <<>> =>
    LET t == OrderedOps(tickTrace) IN
      /\ \A i, j \in 1..Len(t) : i < j => Rank(t[i]) < Rank(t[j])
      /\ {"poll", "time", "render"} \subseteq Range(t)
      /\ "rebind" \in Range(t) => "check" \in Range(t)
      /\ "dirty" \in Range(t) => "check" \in Range(t)

\* a tick that checked the source, rebound it and marked the texture dirty
C6_Witness ==
  OrderedOps(tickTrace) = <<"poll", "check", "rebind", "dirty", "time", "render">>

\* C7 as stated: the next frame is requested after the tick's other
\* operations.
C7_Original ==
  tickTrace # <<>> => tickTrace[Len(tickTrace)] = "raf"

\* C7 as amended: the next frame is requested once per tick, as the tick's
\* first operation, before the poll, the source check, the dirty mark, the
\* time update and the render.
C7_RequestFirst ==
  tickTrace # <<>> =>
    /\ tickTrace[1] = "raf"
    /\ \A i \in 2..Len(tickTrace) : tickTrace[i] # "raf"
    /\ Len(tickTrace) >= 5

\* a tick run from a display refresh requested the next frame first
C7_Witness == ticksRun = 1 /\ lastOp = "refresh" /\ tickTrace[1] = "raf"

C9_Original ==
  [][(TickStep /\ screenMesh) => texImage' = OutputCanvas']_vars

\* C10: outputCanvas is never null, and it is the 384x224 placeholder until
\* a live producer surface has been accepted.
C10_OutputNeverNull ==
  /\ OutputCanvas # NULL
  /\ ~accepted =>
       /\ OutputCanvas = Placeholder
       /\ canvasDims[OutputCanvas] = <<PlaceholderW, PlaceholderH>>

\* the producer's canvas exists and is observed, but is not yet accepted
C10_Witness ==
  ~accepted /\ observers # {} /\ emuCanvas # NULL /\ OutputCanvas = Placeholder

C12_OneRebindPerSource ==
  [][TickStep =>
       /\ "rebind" \in Range(tickTrace') <=>
            (isReady /\ screenMesh /\ texImage # OutputCanvas)
       /\ Cardinality({i \in 1..Len(tickTrace') : tickTrace'[i] = "rebind"}) <= 1
       /\ (isReady /\ screenMesh) => texImage' = OutputCanvas]_vars

\* the first load's surface was accepted at 384x224 and a refresh tick has
\* just moved the texture from the placeholder to it
C12_Witness ==
  /\ loadCount = 1
  /\ lastOp = "refresh"
  /\ ticksRun = 1
  /\ "rebind" \in Range(tickTrace)
  /\ texImage = ejsCanvas
  /\ texImage # Placeholder
  /\ canvasDims[texImage] = <<384, 224>>

\* C13: the promise of a loadROM call whose producer fires its game-start
\* event is eventually resolved, whatever the final size of the producer's
\* surface, and once resolved it stays resolved.
C13_ResolvesOnce ==
  /\ \A k \in Loads :
       (emuStarted /\ emuHandler = k) ~> (promise[k] = "resolved")
  /\ [][\A k \in Loads :
          promise[k] = "resolved" => promise'[k] = "resolved"]_vars

C15_TickAtomic ==
  [][/\ tickPc # 0 =>
          /\ tickPc' = (tickPc + 1) % TickOps
          /\ UNCHANGED <<sizeVars, bridgeVars, heldKeys, romLoader, screenMesh>>
     /\ (winSize' # winSize \/ uResolution' # uResolution
           \/ targetSize' # targetSize) => (tickPc = 0 /\ tickPc' = 0)]_vars

\* a tick is in progress after a resize, with a size observer attached and
\* a key held: events of every kind can arrive before the tick has finished
C15_Witness ==
  /\ tickPc = 3
  /\ lastOp = "refresh"
  /\ winSize = <<1920, 1080>>
  /\ observers # {}
  /\ heldKeys # {}

\* the four quantities a resize notification sets
Measured(s) ==
  <<s.cameraAspect, s.rendererSize,
    [i \in DOMAIN s.renderTargets |-> s.renderTargets[i].size],
    s.uResolution>>

\* C16: in every reachable state and for every size, applying the resize
\* handler twice in a row with the same size leaves the camera aspect, the
\* renderer size, the render target size and the resolution uniform as one
\* application leaves them.
C16_ResizeIdempotent ==
  \A size \in WindowSizes :
    Measured(onResize(onResize(SizeState, size), size))
      = Measured(onResize(SizeState, size))

\* the window was resized to 1920x1080 and notified again with the same size
C16_Witness ==
  /\ pixelRatio = 2
  /\ winSize = <<1920, 1080>>
  /\ uResolution = <<1920, 1080>>
  /\ \A i \in DOMAIN renderTargets : ~renderTargets[i].disposed

C18_ResolutionMatchesTarget == uResolution = targetSize

\* C19 as stated: the compositor holds exactly one intermediate render
\* target, from construction through every resize and tick.
C19_Original == Len(renderTargets) = 1

\* C19: the compositor holds exactly two render targets, the composer's
\* ping-pong pair, both of the renderer's size in device pixels, from
\* construction through every resize and tick.
C19_TargetPair ==
  /\ Len(renderTargets) = 2
  /\ \A i \in DOMAIN renderTargets :
       renderTargets[i].size = pixels(rendererSize, pixelRatio)

\* a tick after the resize to 1920x1080 at pixel ratio 2 reallocated the pair
C19_Witness ==
  /\ pixelRatio = 2
  /\ lastOp = "refresh" /\ ticksRun = 1
  /\ \A i \in DOMAIN renderTargets :
       renderTargets[i] = [size |-> <<3840, 2160>>, disposed |-> TRUE]

\* C20: a tick writes no filter uniform but uTime, a resize none but
\* uResolution, and a configuration scalar changes only when the external
\* caller sets it: the tick that follows renders with the value last set.
C20_UniformWriters ==
  [][/\ TickStep => (config' = config /\ uResolution' = uResolution)
     /\ OnResize => (config' = config /\ uTime' = uTime)
     /\ (config' # config) => SetConfig]_vars

\* a tick that advanced uTime ran after the brightness was set to 0 and the
\* window resized
C20_Witness ==
  /\ lastOp = "refresh" /\ ticksRun = 1
  /\ uTime > 0
  /\ config.uBrightness = 0
  /\ config.uScanlineIntensity = ScanlineDefault
  /\ uResolution = <<1920, 1080>>

\* C21: no tick changes the texture object of the ScreenMesh: a source swap
\* assigns the image of the one CanvasTexture that init() created, and no
\* second texture is ever created.
C21_TextureReused ==
  [][/\ TickStep => texture' = texture
     /\ texture' # texture => (SceneInit /\ texture' = 1)]_vars

\* a tick swapped the source to the surface of the second load, the third
\* source of the texture init() made
C21_Witness ==
  /\ loadCount = 2
  /\ "rebind" \in Range(tickTrace)
  /\ texImage = 3
  /\ texture = 1

\* C22: an error raised by an operation of start()'s tick or of the resize
\* handler reaches the caller of start() or of the handler; neither
\* swallows it.
C22_FailurePropagates ==
  [][(Start \/ OnResize \/ OnResizeFail) => (failed' => threw')]_vars

\* start() scheduled the next frame and its tick's render raised
C22_Witness ==
  /\ lastOp = "start" /\ ticksRun = 1
  /\ failed /\ threw
  /\ rafId # NULL
  /\ winSize = <<1920, 1080>> /\ targetSize = <<800, 600>>

\* the emulator buttons of a set of e.key values
Buttons(ks) == {KEY_MAP(k) : k \in ks} \ {"none"}

\* C28: the buttons of the keys in the held-key set are the buttons of the
\* mapped keys that are down.
C28_HeldKeysExact ==
  Buttons(heldKeys) = Buttons({eventKey(c, FALSE) : c \in keysDown})

\* C29: once loadROM has been called again, only a callback of the latest
\* load sets isReady or the live surface: the game-start closure of that
\* load, or size observers that it attached.
C29_NoStaleCallback ==
  [][((isReady' /\ ~isReady) \/ ejsCanvas' \notin {ejsCanvas, NULL}) =>
       \/ EJS_onGameStart /\ emuHandler = loadCount
       \/ /\ CanvasResize
          /\ \A o \in observers \ observers' : o.load = loadCount]_vars

\* C30: at most one frame callback is pending, and #rafId is non-null
\* exactly when one is, the one it names.
C30_OnePendingFrame ==
  /\ Cardinality(rafPending) <= 1
  /\ rafId # NULL <=> rafPending # {}
  /\ rafId # NULL => rafPending = {rafId}

\* a refresh tick whose render raised left the next frame scheduled
C30_Witness ==
  /\ lastOp = "refresh" /\ ticksRun = 1
  /\ failed
  /\ rafPending = {rafId}

\* C23: with barrel strength 0 the distortion is the identity: the distorted
\* coordinate of every fragment is its own coordinate, and none is clipped.
C23_BarrelIdentity ==
  frag.shaded =>
    /\ barrelDistort(frag.vUv, 0) = frag.vUv
    /\ config.uBarrelStrength = 0 =>
         (FragColor.uv = frag.vUv /\ ~FragColor.clipped)

\* an interior fragment shaded with the distortion switched off
C23_Witness ==
  /\ frag.shaded
  /\ config.uBarrelStrength = 0
  /\ frag.vUv = <<127, 873>>
  /\ FragColor.uv = <<127, 873>>

\* the steps that follow the clip test, in order
LaterSteps ==
  <<"sample", "scanline", "glow", "brightness", "flicker", "vignette">>

\* C24: a fragment whose distorted coordinate is outside the unit square is
\* written as opaque black and none of the later steps is applied to it; a
\* fragment whose distorted coordinate is inside goes through all of them.
C24_ClipSkipsSteps ==
  frag.shaded =>
    IF outside(FragColor.uv)
      THEN /\ FragColor.rgb = <<0, 0, 0>>
           /\ FragColor.a = One
           /\ Range(FragColor.steps) \cap Range(LaterSteps) = {}
      ELSE SubSeq(FragColor.steps, 3, Len(FragColor.steps)) = LaterSteps

\* a white border fragment at double brightness is clipped to black
C24_Witness ==
  /\ frag.shaded
  /\ frag.tex = One /\ frag.vUv = <<1000, 500>>
  /\ config.uBrightness = 2 * One
  /\ FragColor.clipped
  /\ Written = <<0, 0, 0>>

\* C25: with scanline intensity 0 the scanline step multiplies the colour by
\* exactly 1, for every coordinate and resolution; with intensity 1 the
\* multiplier is the value of the modulation curve.
C25_ScanlineIntensity ==
  (frag.shaded /\ ~FragColor.clipped) =>
    /\ config.uScanlineIntensity = 0 =>
         (FragColor.scanMul = One /\ FragColor.scanned = FragColor.sampled)
    /\ config.uScanlineIntensity = One =>
         FragColor.scanMul = FragColor.curve

\* intensity 0 on a fragment where the curve would darken the colour
C25_Witness ==
  /\ frag.shaded /\ ~FragColor.clipped
  /\ config.uScanlineIntensity = 0
  /\ frag.tex = One
  /\ FragColor.curve < One
  /\ FragColor.scanned = <<1000, 1000, 1000>>

\* C26: with vignette strength 0 the vignette multiplier is 1 wherever the
\* geometric term is positive; the term is 0 on the image border only, and
\* only there may the multiplier differ from 1.
C26_VignetteOff ==
  (frag.shaded /\ ~FragColor.clipped /\ config.uVignetteStrength = 0) =>
    /\ FragColor.geo > 0 => FragColor.vigMul = One
    /\ FragColor.geo = 0 =>
         (FragColor.uv[1] \in {0, One} \/ FragColor.uv[2] \in {0, One})

\* strength 0 at an interior fragment whose geometric term is below 1
C26_Witness ==
  /\ frag.shaded /\ ~FragColor.clipped
  /\ config.uVignetteStrength = 0
  /\ FragColor.geo > 0 /\ FragColor.geo < One
  /\ FragColor.vigMul = One

\* the fragment shaded with the brightness set to b
AtBrightness(b) ==
  main(frag.vUv, frag.tex, frag.undef, [Uniforms EXCEPT !.uBrightness = b])

\* C27: brightness is one factor of the product: the colour written is the
\* colour at brightness 1 times the brightness, clamped at 1 on write only,
\* and brightness 2 gives twice the colour of brightness 1 before the clamp
\* (each to within the rounding of the products).
C27_BrightnessLinear ==
  (frag.shaded /\ ~FragColor.clipped) =>
    \A i \in 1..3 :
      /\ AtBrightness(2 * One).rgb[i] - 2 * AtBrightness(One).rgb[i] \in 0..1
      /\ FragColor.rgb[i] - mulF(AtBrightness(One).rgb[i], config.uBrightness)
           \in -2..2
      /\ Written[i] = IF FragColor.rgb[i] > One THEN One ELSE FragColor.rgb[i]

\* a white fragment at brightness 2 exceeds 1 before the clamp
C27_Witness ==
  /\ frag.shaded /\ ~FragColor.clipped
  /\ config.uBrightness = 2 * One
  /\ frag.tex = One
  /\ FragColor.rgb[1] > One
  /\ Written[1] = One

====
